---- MODULE Spec2Model ----
(***************************************************************************)
(* A model of HE_CORDIS_updates.py: the loader processCordisData, the      *)
(* summary pipeline do_cordis_summary (filter, project join, organisation, *)
(* project and country summaries, link decoration) and the script's main   *)
(* (data check, fetch, load, country arguments).                           *)
(*                                                                         *)
(* A pandas DataFrame is a sequence of records (rows in order), a missing  *)
(* value (NaN) is the empty tuple and a present nullable value v is <<v>>. *)
(***************************************************************************)
EXTENDS Integers, Sequences, FiniteSets, TLC

(* ------------------------------ bounds --------------------------------- *)
\* rows of organization.xlsx beyond one base row per programme
MaxExtra == 1
\* project records that carry the project id 100 in the project tables
MaxProjectRecords == 2
\* the number of calls in grantsTenders.json
MaxCalls == 4

(* --------------------------- general helpers --------------------------- *)
NaN == <<>>

notna(x) == x # NaN

RECURSIVE Concat(_)
Concat(ss) == IF ss = <<>> THEN <<>> ELSE Head(ss) \o Concat(Tail(ss))

Range(s) == {s[i] : i \in DOMAIN s}

RECURSIVE SumSeq(_)
SumSeq(s) == IF s = <<>> THEN 0 ELSE Head(s) + SumSeq(Tail(s))

RECURSIVE SeqsUpTo(_, _)
SeqsUpTo(S, n) ==
    IF n = 0 THEN {<<>>}
    ELSE LET shorter == SeqsUpTo(S, n - 1)
         IN  shorter \cup {Append(s, x) : s \in {t \in shorter : Len(t) = n - 1}, x \in S}

(* ------------------------ f-string formatting -------------------------- *)
Digit(d) ==
    CASE d = 0 -> "0" [] d = 1 -> "1" [] d = 2 -> "2" [] d = 3 -> "3" [] d = 4 -> "4"
      [] d = 5 -> "5" [] d = 6 -> "6" [] d = 7 -> "7" [] d = 8 -> "8" [] d = 9 -> "9"

RECURSIVE NatStr(_)
NatStr(n) == IF n < 10 THEN Digit(n) ELSE NatStr(n \div 10) \o Digit(n % 10)

\* str(x) of a Python int, as "{x}" renders it
FormatInt(n) == IF n < 0 THEN "-" \o NatStr(0 - n) ELSE NatStr(n)

(* ------------------------------ the data ------------------------------- *)
FrameworkProgrammes == <<"FP7", "H2020", "HORIZON">>

\* organisations of the extra rows of organization.xlsx; two of them share
\* the organisationID 1 with different descriptive attributes, one has no
\* id, one has a country code that has no name
Organisations ==
    { [organisationID |-> <<1>>, name |-> "UniX", shortName |-> "UX",
       country |-> "NZ", activityType |-> "HES", SME |-> FALSE],
      [organisationID |-> NaN, name |-> "Anon Ltd", shortName |-> "AL",
       country |-> "UK", activityType |-> "PRC", SME |-> TRUE],
      [organisationID |-> <<1>>, name |-> "UniX (former)", shortName |-> "UXF",
       country |-> "XX", activityType |-> "REC", SME |-> FALSE] }

\* the organisation of the base row of each programme's table; the one of
\* HORIZON has no organisationID
BaseOrganisation(fp) ==
    CASE fp = "FP7" ->
           [organisationID |-> <<1>>, name |-> "UniX", shortName |-> "UX",
            country |-> "NZ", activityType |-> "HES", SME |-> FALSE]
      [] fp = "H2020" ->
           [organisationID |-> <<3>>, name |-> "Kiwi Ltd", shortName |-> "KL",
            country |-> "NZ", activityType |-> "PRC", SME |-> TRUE]
      [] fp = "HORIZON" ->
           [organisationID |-> NaN, name |-> "Aotearoa Institute", shortName |-> "AI",
            country |-> "NZ", activityType |-> "REC", SME |-> FALSE]

\* projects of the extra rows: the programme whose tables list them, their
\* id and acronym; the HORIZON project QRS has the id of the H2020 project
\* XYZ, project 400 re-uses the acronym of project 100 and has no project
\* record
Projects ==
    { [fp |-> "FP7",     projectID |-> 100, projectAcronym |-> "ABC"],
      [fp |-> "H2020",   projectID |-> 200, projectAcronym |-> "XYZ"],
      [fp |-> "HORIZON", projectID |-> 200, projectAcronym |-> "QRS"],
      [fp |-> "HORIZON", projectID |-> 400, projectAcronym |-> "ABC"] }

BaseProject(fp) ==
    CASE fp = "FP7"     -> [fp |-> "FP7",     projectID |-> 100, projectAcronym |-> "ABC"]
      [] fp = "H2020"   -> [fp |-> "H2020",   projectID |-> 200, projectAcronym |-> "XYZ"]
      [] fp = "HORIZON" -> [fp |-> "HORIZON", projectID |-> 300, projectAcronym |-> "DEF"]

\* a spreadsheet cell is empty (NaN), a number <<"num", n>> or text
\* <<"str", s>>; values of the ecContribution cell: empty, negative, zero,
\* positive
EcValues == {NaN, <<"num", 0 - 2>>, <<"num", 0>>, <<"num", 3>>}

BaseEc == <<"num", 5>>

\* the totalCost cell of a row: text where the contribution is empty
TotalCostCell(ec) == IF ec = NaN THEN <<"str", "n/a">> ELSE ec

\* one row of organization.xlsx
OrgRow(o, p, ec) ==
    [organisationID |-> o.organisationID, name |-> o.name, shortName |-> o.shortName,
     country |-> o.country, activityType |-> o.activityType, SME |-> o.SME,
     role |-> "participant", order |-> 1,
     ecContribution |-> ec, netEcContribution |-> ec,
     totalCost |-> TotalCostCell(ec),
     projectID |-> p.projectID, projectAcronym |-> p.projectAcronym]

\* one row of project.xlsx; v tells apart the records that share an id
ProjectRow(p, v) ==
    [id |-> p.projectID, acronym |-> p.projectAcronym,
     title |-> <<"Title " \o FormatInt(p.projectID) \o "/" \o FormatInt(v)>>,
     fundingScheme |-> <<"RIA">>, subCall |-> <<"CALL-" \o FormatInt(v)>>,
     ecSignatureDate |-> <<"2020-01-0" \o FormatInt(v)>>,
     startDate |-> <<"2020-02-0" \o FormatInt(v)>>,
     endDate |-> <<"2024-02-0" \o FormatInt(v)>>]

\* the country lists handed to do_cordis_summary
CountryLists ==
    { <<"NZ">>, <<"UK">>, <<"TV">>, <<"NZ", "UK", "XX">> }

(* ------------------------------- state --------------------------------- *)
VARIABLES
    orgFiles,             \* organization.xlsx of each programme
    projFiles,            \* project.xlsx of each programme
    country,              \* the country list of the call
    pc,                   \* position in the script
    df_orgs,              \* participation relation
    df_projects,          \* project relation
    df_country,           \* filtered and joined detail relation
    df_country_orgs,      \* organisation summary
    df_country_projects,  \* project summary
    df_countries_summary, \* country summary
    previous,             \* the four tables of the previous run of the script
    args,                 \* the parsed command line
    fp_data,              \* cordis_date and stored_date of each programme
    stored,               \* cordis_date.txt of each programme's directory
    newdata,              \* flag: data were downloaded
    downloaded,           \* the programmes downloaded in this run
    pkl,                  \* cordis_projects.pkl and cordis_orgs.pkl
    filename,             \* the file name handed to do_cordis_summary
    saved                 \* the spreadsheet written

\* the state of HE_calls_updates.py
VARIABLES
    cpc,                  \* position in the script
    calls_args,           \* the parsed command line
    server_json,          \* grantsTenders.json on the Commission's server
    local_json,           \* grantsTenders.json in the working directory
    xlsx_files,           \* the .xlsx files of the working directory, oldest first
    grantsdata,           \* the loaded JSON
    df_calls,             \* the processed calls (df of main)
    compare_file,         \* the file to compare with, or False
    new_data,             \* flag: calls were found that the compare file lacks
    calls_saved,          \* the spreadsheet written in this run
    calendars_saved       \* the calendars written in this run

calls_vars == <<cpc, calls_args, server_json, local_json, xlsx_files, grantsdata,
                df_calls, compare_file, new_data, calls_saved, calendars_saved>>

cordis_vars == <<orgFiles, projFiles, country, pc, df_orgs, df_projects, df_country,
                 df_country_orgs, df_country_projects, df_countries_summary,
                 previous, args, fp_data, stored, newdata, downloaded, pkl,
                 filename, saved>>

vars == <<cordis_vars, calls_vars>>

inputs == <<orgFiles, projFiles, country, previous, args, fp_data, stored,
            newdata, downloaded, filename, calls_vars>>

\* HE_calls_updates.py is not running
CallsIdle ==
    /\ cpc = "idle"
    /\ calls_args = <<>>
    /\ server_json = <<>>
    /\ local_json = <<>>
    /\ xlsx_files = <<>>
    /\ grantsdata = <<>>
    /\ df_calls = <<>>
    /\ compare_file = <<>>
    /\ new_data = FALSE
    /\ calls_saved = <<>>
    /\ calendars_saved = {}

(* ------------------------- the input relations ------------------------- *)
ExtraRows == [o : Organisations, p : Projects, ec : EcValues]

\* organization.xlsx of programme fp: the base row, then the extra rows
\* of the projects of that programme
OrgFile(fp, extras) ==
    <<OrgRow(BaseOrganisation(fp), BaseProject(fp), BaseEc)>>
    \o [i \in 1..Len(SelectSeq(extras, LAMBDA x : x.p.fp = fp)) |->
          LET x == SelectSeq(extras, LAMBDA y : y.p.fp = fp)[i]
          IN  OrgRow(x.o, x.p, x.ec)]

\* project.xlsx of programme fp; project 100 has nrec records
ProjectFile(fp, nrec) ==
    CASE fp = "FP7" ->
           [v \in 1..nrec |-> ProjectRow(BaseProject("FP7"), v)]
      [] fp = "H2020" ->
           <<ProjectRow(BaseProject("H2020"), 1)>>
      [] fp = "HORIZON" ->
           <<ProjectRow(BaseProject("HORIZON"), 1)>>

Init ==
    /\ \E extras \in SeqsUpTo(ExtraRows, MaxExtra) :
          orgFiles = [fp \in Range(FrameworkProgrammes) |-> OrgFile(fp, extras)]
    /\ \E nrec \in 1..MaxProjectRecords :
          projFiles = [fp \in Range(FrameworkProgrammes) |-> ProjectFile(fp, nrec)]
    /\ country \in CountryLists
    /\ pc = "load"
    /\ df_orgs = <<>>
    /\ df_projects = <<>>
    /\ df_country = <<>>
    /\ df_country_orgs = <<>>
    /\ df_country_projects = <<>>
    /\ df_countries_summary = <<>>
    /\ previous = <<>>
    /\ CallsIdle
    /\ args = <<>>
    /\ fp_data = <<>>
    /\ stored = <<>>
    /\ newdata = FALSE
    /\ downloaded = {}
    /\ pkl = <<>>
    /\ filename = <<"HE_CORDIS_summary.xlsx">>
    /\ saved = <<>>

(* --------------------------- processCordisData ------------------------- *)
\* pd.to_numeric(errors='coerce'): a number stays, an empty cell and text
\* that is no number become NaN
to_numeric(x) ==
    IF x = NaN THEN NaN
    ELSE IF x[1] = "num" THEN <<x[2]>> ELSE NaN

\* the organisation tables tagged with their programme and concatenated,
\* the project tables concatenated with id renamed to projectID
processCordisData_orgs(files) ==
    Concat([k \in 1..Len(FrameworkProgrammes) |->
        [i \in 1..Len(files[FrameworkProgrammes[k]]) |->
            LET r == files[FrameworkProgrammes[k]][i]
            IN  [r EXCEPT !.ecContribution = to_numeric(@),
                          !.netEcContribution = to_numeric(@),
                          !.totalCost = to_numeric(@)]
                @@ [frameworkProgramme |-> FrameworkProgrammes[k]]]])

processCordisData_projects(files) ==
    Concat([k \in 1..Len(FrameworkProgrammes) |->
        [i \in 1..Len(files[FrameworkProgrammes[k]]) |->
            LET r == files[FrameworkProgrammes[k]][i]
            IN  [projectID |-> r.id, acronym |-> r.acronym, title |-> r.title,
                 fundingScheme |-> r.fundingScheme, subCall |-> r.subCall,
                 ecSignatureDate |-> r.ecSignatureDate, startDate |-> r.startDate,
                 endDate |-> r.endDate]]])

processCordisData ==
    /\ pc = "load"
    /\ df_orgs' = processCordisData_orgs(orgFiles)
    /\ df_projects' = processCordisData_projects(projFiles)
    /\ pkl' = <<df_projects', df_orgs'>>
    /\ pc' = "filter"
    /\ UNCHANGED <<inputs, saved, df_country, df_country_orgs, df_country_projects,
                   df_countries_summary>>

(* ------------------- do_cordis_summary: filter and join ---------------- *)
\* Series.isin(values)
isin(x, values) == \E i \in DOMAIN values : values[i] = x

\* df_orgs[df_orgs['country'].isin(country)]
filter_country(orgs, countries) ==
    SelectSeq(orgs, LAMBDA r : isin(r.country, countries))

\* the project columns the join pulls in
project_columns(p) ==
    [title |-> p.title, fundingScheme |-> p.fundingScheme, subCall |-> p.subCall,
     ecSignatureDate |-> p.ecSignatureDate, startDate |-> p.startDate,
     endDate |-> p.endDate]

null_project_columns ==
    [title |-> NaN, fundingScheme |-> NaN, subCall |-> NaN,
     ecSignatureDate |-> NaN, startDate |-> NaN, endDate |-> NaN]

\* an inner join: a left row without a project record is dropped
merge_inner_row(r, projects) ==
    LET matches == SelectSeq(projects, LAMBDA p : p.projectID = r.projectID)
    IN  [j \in 1..Len(matches) |-> r @@ project_columns(matches[j])]

\* the rows a left row becomes in pd.merge(..., on='projectID', how='left'):
\* one per matching project record, or one with empty project columns
merge_left_row(r, projects) ==
    LET matches == SelectSeq(projects, LAMBDA p : p.projectID = r.projectID)
    IN  IF matches = <<>>
        THEN <<r @@ null_project_columns>>
        ELSE [j \in 1..Len(matches) |-> r @@ project_columns(matches[j])]

merge_projects(left, projects) ==
    Concat([i \in 1..Len(left) |-> merge_left_row(left[i], projects)])

\* pycountry.countries.get(alpha_2=...): the names of the codes it knows
pycountry_names ==
    [GB |-> "United Kingdom", NZ |-> "New Zealand", AU |-> "Australia",
     TV |-> "Tuvalu", XK |-> "Kosovo"]

\* str.upper() on the codes that occur
upper(code) ==
    CASE code = "nz" -> "NZ" [] code = "au" -> "AU" [] code = "gb" -> "GB"
      [] code = "uk" -> "UK" [] OTHER -> code

\* the lookup without the UK special case
get_country_name_iso(country_code) ==
    IF upper(country_code) \in DOMAIN pycountry_names
    THEN pycountry_names[upper(country_code)]
    ELSE ""

get_country_name(country_code) ==
    LET code == IF country_code = "UK" THEN "GB" ELSE country_code
    IN  IF upper(code) \in DOMAIN pycountry_names
        THEN pycountry_names[upper(code)]
        ELSE ""

\* fillna(-1).astype(int)
fillna_int(x) == IF notna(x) THEN x[1] ELSE 0 - 1

\* rename, countryName, PIC and the column selection
detail_row(r) ==
    [frameworkProgramme |-> r.frameworkProgramme, projectID |-> r.projectID,
     projectAcronym |-> r.projectAcronym, title |-> r.title,
     ecSignatureDate |-> r.ecSignatureDate, startDate |-> r.startDate,
     endDate |-> r.endDate, country |-> r.country,
     countryName |-> get_country_name(r.country),
     PIC |-> fillna_int(r.organisationID), Organisation |-> r.name,
     shortName |-> r.shortName, activityType |-> r.activityType, SME |-> r.SME,
     subCall |-> r.subCall, order |-> r.order,
     role |-> r.role, ecContribution |-> r.ecContribution,
     netEcContribution |-> r.netEcContribution, totalCost |-> r.totalCost]
    @@ ("Type of action" :> r.fundingScheme)

\* the detail relation without the rows that have no organisationID, which
\* is what grouping by the id leaves of them without the fillna of line 164
filter_and_join_dropna(orgs, projects, countries) ==
    LET merged == merge_projects(filter_country(orgs, countries), projects)
        known == SelectSeq(merged, LAMBDA r : notna(r.organisationID))
    IN  [i \in 1..Len(known) |-> detail_row(known[i])]

filter_and_join(orgs, projects, countries) ==
    LET merged == merge_projects(filter_country(orgs, countries), projects)
    IN  [i \in 1..Len(merged) |-> detail_row(merged[i])]

\* the filter applied to the participation relation itself
FilterJoin_in_place ==
    /\ pc = "filter"
    /\ df_orgs' = filter_country(df_orgs, country)
    /\ df_country' = filter_and_join(df_orgs, df_projects, country)
    /\ pc' = "orgs"
    /\ UNCHANGED <<inputs, pkl, saved, df_projects, df_country_orgs,
                   df_country_projects, df_countries_summary>>

FilterJoin ==
    /\ pc = "filter"
    /\ df_country' = filter_and_join(df_orgs, df_projects, country)
    /\ pc' = "orgs"
    /\ UNCHANGED <<inputs, pkl, saved, df_orgs, df_projects, df_country_orgs,
                   df_country_projects, df_countries_summary>>

(* ---------------------- pandas aggregation helpers --------------------- *)
\* the rows of df whose column col equals k
rows_of(df, col, k) == SelectSeq(df, LAMBDA r : r[col] = k)

\* the distinct values of a column
unique(df, col) == {df[i][col] : i \in DOMAIN df}

\* no de-duplication at all
keep_all_rows(df, col) == df

\* drop_duplicates(col, keep='last'): the last row of every value of col
drop_duplicates_keep_last(df, col) ==
    LET last == {i \in DOMAIN df : \A j \in (i + 1)..Len(df) : df[j][col] # df[i][col]}
        RECURSIVE pick(_)
        pick(i) == IF i > Len(df) THEN <<>>
                   ELSE (IF i \in last THEN <<df[i]>> ELSE <<>>) \o pick(i + 1)
    IN  pick(1)

\* drop_duplicates(col): the first row of every value of col, in order
drop_duplicates(df, col) ==
    LET first == {i \in DOMAIN df : \A j \in 1..(i - 1) : df[j][col] # df[i][col]}
        RECURSIVE pick(_)
        pick(i) == IF i > Len(df) THEN <<>>
                   ELSE (IF i \in first THEN <<df[i]>> ELSE <<>>) \o pick(i + 1)
    IN  pick(1)

\* Series.sum(): missing values are skipped
sum_skipna(df) ==
    SumSeq([i \in DOMAIN df |->
              IF notna(df[i].ecContribution) THEN df[i].ecContribution[1] ELSE 0])

\* ~(x <= 0): a missing contribution counts as funded
count_not_nonpositive(df) ==
    Len(SelectSeq(df, LAMBDA r : ~(notna(r.ecContribution) /\ r.ecContribution[1] <= 0)))

\* (x > 0).sum(): the number of rows with a positive contribution
count_positive(df) ==
    Len(SelectSeq(df, LAMBDA r : notna(r.ecContribution) /\ r.ecContribution[1] > 0))

\* x[x > 0].sum(): the sum of the positive contributions
sum_positive(df) ==
    sum_skipna(SelectSeq(df, LAMBDA r : notna(r.ecContribution) /\ r.ecContribution[1] > 0))

\* Series.nunique() of projectID
nunique_projects(df) == Cardinality(unique(df, "projectID"))

\* str.join
RECURSIVE join(_, _)
join(sep, s) ==
    IF s = <<>> THEN ""
    ELSE IF Len(s) = 1 THEN s[1]
    ELSE s[1] \o sep \o join(sep, Tail(s))

\* the orders in which a set of programme names can be iterated: the order
\* follows the string hashes, which are randomised for every process
HashOrders ==
    {h \in [1..Len(FrameworkProgrammes) -> Range(FrameworkProgrammes)] :
        \A i, j \in DOMAIN h : i # j => h[i] # h[j]}

\* iteration over set(S) in a process whose hashes order the names as h
set_iteration(S, h) == SelectSeq(h, LAMBDA x : x \in S)

Metrics == <<"num_projects", "num_funded_projects", "total_ecContribution">>

\* the per-programme sum taken over the positive contributions only
fp_metric_positive_sum(grp, metric) ==
    CASE metric = "num_projects"         -> nunique_projects(grp)
      [] metric = "num_funded_projects"  -> count_positive(grp)
      [] metric = "total_ecContribution" -> sum_positive(grp)

\* the named aggregations of one (key, programme) group of rows
fp_metric(grp, metric) ==
    CASE metric = "num_projects"         -> nunique_projects(grp)
      [] metric = "num_funded_projects"  -> count_positive(grp)
      [] metric = "total_ecContribution" -> sum_skipna(grp)

\* the programmes that become columns of the pivot table: those observed
pivot_programmes(df) == unique(df, "frameworkProgramme")

\* the flattened column names '_'.join(col)
flat_name(metric, fp) == join("_", <<metric, fp>>)

\* the columns of the pivot table
pivot_columns(df) ==
    {flat_name(m, fp) : m \in Range(Metrics), fp \in pivot_programmes(df)}

\* the cell of key k in the pivot column of (metric, fp): the metric of
\* the group, 0 (fill_value) where the key has no row in the programme
pivot_cell(df, col, k, metric, fp) ==
    LET grp == SelectSeq(df, LAMBDA r : r[col] = k /\ r.frameworkProgramme = fp)
    IN  IF grp = <<>> THEN 0 ELSE fp_metric(grp, metric)

\* the columns the summaries select from the merged pivot table
PivotColumns ==
    {flat_name(m, fp) : m \in Range(Metrics), fp \in Range(FrameworkProgrammes)}

\* df[[...]] raises KeyError when a selected column does not exist
pivot_columns_missing(df) == ~(PivotColumns \subseteq pivot_columns(df))

(* ------------------- do_cordis_summary: organisations ------------------ *)
\* the programme part of the readable column names
fp_label(fp) == IF fp = "HORIZON" THEN "HEU" ELSE fp

\* the readable names of the pivoted columns of the organisation summary
org_column(metric, fp) ==
    CASE metric = "num_projects"         -> fp_label(fp) \o " projects"
      [] metric = "num_funded_projects"  -> fp_label(fp) \o " funded projects"
      [] metric = "total_ecContribution" -> fp_label(fp) \o " total funding (EUR)"

\* the three pivot cells of organisation pic and programme fp under their
\* readable column names
org_pivot_triple(df, pic, fp) ==
    [m \in {org_column(metric, fp) : metric \in Range(Metrics)} |->
        LET metric == CHOOSE x \in Range(Metrics) : org_column(x, fp) = m
        IN  pivot_cell(df, "PIC", pic, metric, fp)]

\* ', '.join(set(x.dropna())) over the programmes of the rows of one PIC
programmes_joined(df, pic, h) ==
    join(", ", set_iteration(unique(rows_of(df, "PIC", pic), "frameworkProgramme"), h))

\* the summary row of the organisation whose first detail row is r
org_summary_row(df, r, h) ==
    LET grp == rows_of(df, "PIC", r.PIC)
    IN  [PIC |-> r.PIC, Organisation |-> r.Organisation, shortName |-> r.shortName,
         country |-> r.country, countryName |-> r.countryName,
         activityType |-> r.activityType, SME |-> r.SME,
         projectCount |-> nunique_projects(grp)]
        @@ ("Framework programmes" :> programmes_joined(df, r.PIC, h))
        @@ ("Total EU funding (EUR)" :> sum_skipna(grp))
        @@ org_pivot_triple(df, r.PIC, "FP7")
        @@ org_pivot_triple(df, r.PIC, "H2020")
        @@ org_pivot_triple(df, r.PIC, "HORIZON")

\* the organisation summary in the order of the group keys, which is
\* the order of the aggregated tables it is merged with
org_summary_sorted(df, h) ==
    LET firsts == drop_duplicates(df, "PIC")
        rank(i) == Cardinality({j \in DOMAIN firsts : firsts[j].PIC < firsts[i].PIC}) + 1
    IN  [n \in 1..Len(firsts) |->
            org_summary_row(df, firsts[CHOOSE i \in DOMAIN firsts : rank(i) = n], h)]

org_summary(df, h) ==
    LET firsts == drop_duplicates(df, "PIC")
    IN  [i \in 1..Len(firsts) |-> org_summary_row(df, firsts[i], h)]

OrgSummary ==
    /\ pc = "orgs"
    /\ IF pivot_columns_missing(df_country)
       THEN /\ pc' = "KeyError"
            /\ UNCHANGED df_country_orgs
       ELSE /\ \E h \in HashOrders : df_country_orgs' = org_summary(df_country, h)
            /\ pc' = "projects"
    /\ UNCHANGED <<inputs, pkl, saved, df_orgs, df_projects, df_country, df_country_projects,
                   df_countries_summary>>

(* --------------------- do_cordis_summary: projects --------------------- *)
\* Series.first(): only the first value of the group
first_value(df, col) == IF df = <<>> THEN <<>> ELSE <<df[1][col]>>

\* Series.unique(): the distinct values in order of first appearance
unique_seq(df, col) ==
    LET d == drop_duplicates(df, col) IN [i \in 1..Len(d) |-> d[i][col]]

\* the value a left merge on projectID attaches: the positive sum of the
\* group of that id, nothing when the id has no group
merged_positive_sum(df, id) ==
    IF rows_of(df, "projectID", id) = <<>> THEN NaN
    ELSE <<sum_positive(rows_of(df, "projectID", id))>>

\* the summary row of the project whose first detail row is r
project_summary_row(detail, orgs, r) ==
    [frameworkProgramme |-> r.frameworkProgramme, projectID |-> r.projectID,
     projectAcronym |-> r.projectAcronym, title |-> r.title,
     ecSignatureDate |-> r.ecSignatureDate, startDate |-> r.startDate,
     endDate |-> r.endDate, subCall |-> r.subCall,
     country_ecContribution |-> merged_positive_sum(detail, r.projectID),
     total_ecContribution |-> merged_positive_sum(orgs, r.projectID)]
    @@ ("Type of action" :> r["Type of action"])
    @@ ("Matched countries" :>
            unique_seq(rows_of(detail, "projectAcronym", r.projectAcronym), "country"))
    @@ ("All countries" :>
            unique_seq(rows_of(orgs, "projectAcronym", r.projectAcronym), "country"))

project_summary(detail, orgs) ==
    LET firsts == drop_duplicates(detail, "projectAcronym")
    IN  [i \in 1..Len(firsts) |-> project_summary_row(detail, orgs, firsts[i])]

ProjectSummary ==
    /\ pc = "projects"
    /\ df_country_projects' = project_summary(df_country, df_orgs)
    /\ pc' = "countries"
    /\ UNCHANGED <<inputs, pkl, saved, df_orgs, df_projects, df_country, df_country_orgs,
                   df_countries_summary>>

(* --------------------- do_cordis_summary: countries -------------------- *)
\* the readable names of the pivoted columns of the country summary
country_column(metric, fp) ==
    CASE metric = "num_projects"         -> fp_label(fp) \o " projects"
      [] metric = "num_funded_projects"  -> fp_label(fp) \o " funded projects"
      [] metric = "total_ecContribution" -> fp_label(fp) \o " funding (EUR)"

\* the three pivot cells of country c and programme fp under their readable
\* column names
country_pivot_triple(df, c, fp) ==
    [m \in {country_column(metric, fp) : metric \in Range(Metrics)} |->
        LET metric == CHOOSE x \in Range(Metrics) : country_column(x, fp) = m
        IN  pivot_cell(df, "country", c, metric, fp)]

\* the country row with the total funding summed over the positive values
\* only, as the aggregation left in the comment of line 273 would
country_summary_row_positive_total(df, r) ==
    LET grp == rows_of(df, "country", r.country)
    IN  [country |-> r.country, countryName |-> r.countryName]
        @@ ("Project acronyms" :> unique_seq(grp, "projectAcronym"))
        @@ country_pivot_triple(df, r.country, "FP7")
        @@ country_pivot_triple(df, r.country, "H2020")
        @@ country_pivot_triple(df, r.country, "HORIZON")
        @@ ("Total projects" :> nunique_projects(grp))
        @@ ("Total funded projects" :> count_positive(grp))
        @@ ("Total funding (EUR)" :> sum_positive(grp))

\* the summary row of the country whose first detail row is r
country_summary_row(df, r) ==
    LET grp == rows_of(df, "country", r.country)
    IN  [country |-> r.country, countryName |-> r.countryName]
        @@ ("Project acronyms" :> unique_seq(grp, "projectAcronym"))
        @@ country_pivot_triple(df, r.country, "FP7")
        @@ country_pivot_triple(df, r.country, "H2020")
        @@ country_pivot_triple(df, r.country, "HORIZON")
        @@ ("Total projects" :> nunique_projects(grp))
        @@ ("Total funded projects" :> count_positive(grp))
        @@ ("Total funding (EUR)" :> sum_skipna(grp))

\* the country summary built without the deduplication of line 263
country_summary_every_row(df) ==
    [i \in 1..Len(df) |-> country_summary_row(df, df[i])]

country_summary(df) ==
    LET firsts == drop_duplicates(df, "country")
    IN  [i \in 1..Len(firsts) |-> country_summary_row(df, firsts[i])]

CountrySummary ==
    /\ pc = "countries"
    /\ IF pivot_columns_missing(df_country)
       THEN /\ pc' = "KeyError"
            /\ UNCHANGED df_countries_summary
       ELSE /\ df_countries_summary' = country_summary(df_country)
            /\ pc' = "links"
    /\ UNCHANGED <<inputs, pkl, saved, df_orgs, df_projects, df_country, df_country_orgs,
                   df_country_projects>>

(* ------------------- do_cordis_summary: link decoration ---------------- *)
OrgBaseUrl ==
    "https://ec.europa.eu/info/funding-tenders/opportunities/portal/screen/how-to-participate/org-details/"

ProjectBaseUrl == "https://cordis.europa.eu/project/id/"

\* f'=HYPERLINK("{base_url}{x}", "{x}")'
hyperlink(base_url, x) ==
    "=HYPERLINK(\"" \o base_url \o FormatInt(x) \o "\", \"" \o FormatInt(x) \o "\")"

\* the decoration with the project links built before base_url is set to
\* the address of the projects
decorate_detail_one_base_url(df) ==
    [i \in 1..Len(df) |->
        [df[i] EXCEPT !.PIC = hyperlink(OrgBaseUrl, @),
                      !.projectID = hyperlink(OrgBaseUrl, @)]]

decorate_detail(df) ==
    [i \in 1..Len(df) |->
        [df[i] EXCEPT !.PIC = hyperlink(OrgBaseUrl, @),
                      !.projectID = hyperlink(ProjectBaseUrl, @)]]

decorate_projects(df) ==
    [i \in 1..Len(df) |-> [df[i] EXCEPT !.projectID = hyperlink(ProjectBaseUrl, @)]]

Decorate ==
    /\ pc = "links"
    /\ df_country' = decorate_detail(df_country)
    /\ df_country_projects' = decorate_projects(df_country_projects)
    /\ saved' = IF notna(filename) THEN filename ELSE saved
    /\ pc' = "done"
    /\ UNCHANGED <<inputs, pkl, df_orgs, df_projects, df_country_orgs,
                   df_countries_summary>>

Next ==
    \/ processCordisData
    \/ FilterJoin
    \/ OrgSummary
    \/ ProjectSummary
    \/ CountrySummary
    \/ Decorate

Spec == Init /\ [][Next]_vars

(* ------------------------ a second run of the script ------------------- *)
\* the script is started again on the same stored data and country list:
\* a new process, which keeps nothing of the first but what it wrote
RunAgain ==
    /\ pc = "done"
    /\ previous = <<>>
    /\ previous' = <<df_country, df_country_orgs, df_country_projects,
                     df_countries_summary>>
    /\ df_country' = <<>>
    /\ df_country_orgs' = <<>>
    /\ df_country_projects' = <<>>
    /\ df_countries_summary' = <<>>
    /\ pc' = "filter"
    /\ UNCHANGED <<orgFiles, projFiles, country, df_orgs, df_projects, args,
                   fp_data, stored, newdata, downloaded, pkl, filename, saved,
                   calls_vars>>

NextTwice == Next \/ RunAgain

SpecTwice == Init /\ [][NextTwice]_vars

(* -------------------------------- main --------------------------------- *)
\* the preset country groupings
country_sets ==
    [pacific |-> <<"FJ", "KI", "MH", "FM", "NR", "PW", "PG", "WS", "SB", "TO", "TV", "VU">>,
     eu_members |-> <<"AT", "BE", "BG", "CY", "CZ", "DE", "DK", "EE", "ES", "FI", "FR",
                      "GR", "HR", "HU", "IE", "IT", "LT", "LU", "LV", "MT", "NL", "PL",
                      "PT", "RO", "SE", "SI", "SK">>,
     associated_countries |-> <<"AL", "AM", "BA", "FO", "GE", "IS", "IL", "XK", "MD",
                                "ME", "NZ", "MK", "NO", "RS", "TN", "TR", "UA", "UK">>,
     nordics |-> <<"NO", "SE", "DK", "FI", "IS">>]

\* the country arguments of the command line; without one argparse gives NZ
CountryArguments ==
    { <<"NZ">>, <<"GB", "NZ">>, <<"pacific">>, <<"NZ", "XX">>, <<"gb", "UK">> }

\* parse_arguments(): the three switches and the country arguments
parse_arguments ==
    [newonly : BOOLEAN, local : BOOLEAN, force : BOOLEAN, country : CountryArguments]

\* a datetime: its day and its second of the day; every date of the feeds
\* and of the markers has the offset +0000
datetime(d, t) == [date |-> d, time |-> t]

\* a > b on two datetimes
later(a, b) == a.date > b.date \/ (a.date = b.date /\ a.time > b.time)

\* the text of a date without its time of day
strftime_midnight(dt) == <<dt.date, 0, "+0000">>

\* strftime("%Y-%m-%d %H:%M:%S %z"): the text, by its three fields
strftime(dt) == <<dt.date, dt.time, "+0000">>

\* strptime(text, "%Y-%m-%d %H:%M:%S %z")
strptime(text) == [date |-> text[1], time |-> text[2]]

\* checkCordisDate(rss_url): the publication date of the programme's data
checkCordisDate(fp) == <<datetime(2, 1)>>

\* what cordis_date.txt can hold: nothing (no file), or a date that is a day
\* older than the publication date, a second older, the same, or newer
StoredDates ==
    {NaN, <<strftime(datetime(1, 1))>>, <<strftime(datetime(2, 0))>>,
     <<strftime(datetime(2, 1))>>, <<strftime(datetime(3, 0))>>}

\* checkLocalDataDate(path): the date in cordis_date.txt, "none" without it
checkLocalDataDate(fp) ==
    IF stored[fp] = NaN THEN NaN ELSE <<strptime(stored[fp][1])>>

\* the tables in a programme's directory before the run, and the ones the
\* archive in CORDIS holds, which has one participation more
LocalFiles ==
    [orgs |-> [fp \in Range(FrameworkProgrammes) |-> OrgFile(fp, <<>>)],
     projects |-> [fp \in Range(FrameworkProgrammes) |-> ProjectFile(fp, 1)]]

CordisExtraRow ==
    [o |-> [organisationID |-> NaN, name |-> "Anon Ltd", shortName |-> "AL",
            country |-> "UK", activityType |-> "PRC", SME |-> TRUE],
     p |-> [fp |-> "H2020", projectID |-> 200, projectAcronym |-> "XYZ"],
     ec |-> <<"num", 3>>]

CordisFiles ==
    [orgs |-> [fp \in Range(FrameworkProgrammes) |-> OrgFile(fp, <<CordisExtraRow>>)],
     projects |-> [fp \in Range(FrameworkProgrammes) |-> ProjectFile(fp, 1)]]

InitMain ==
    /\ args \in parse_arguments
    /\ stored \in [Range(FrameworkProgrammes) -> StoredDates]
    /\ orgFiles = [fp \in Range(FrameworkProgrammes) |->
                      IF notna(stored[fp]) THEN LocalFiles.orgs[fp] ELSE <<>>]
    /\ projFiles = [fp \in Range(FrameworkProgrammes) |->
                       IF notna(stored[fp]) THEN LocalFiles.projects[fp] ELSE <<>>]
    /\ pkl \in {<<>>, <<processCordisData_projects(LocalFiles.projects),
                         processCordisData_orgs(LocalFiles.orgs)>>}
    /\ fp_data = [fp \in Range(FrameworkProgrammes) |->
                     [cordis_date |-> NaN, stored_date |-> NaN]]
    /\ newdata = FALSE
    /\ downloaded = {}
    /\ country = <<>>
    /\ filename = <<>>
    /\ saved = <<>>
    /\ pc = "main"
    /\ df_orgs = <<>>
    /\ df_projects = <<>>
    /\ df_country = <<>>
    /\ df_country_orgs = <<>>
    /\ df_country_projects = <<>>
    /\ df_countries_summary = <<>>
    /\ previous = <<>>
    /\ CallsIdle

\* the data check: skipped with --local, else the two dates of each
\* programme are read
main_check ==
    /\ pc = "main"
    /\ IF args.local
       THEN /\ pc' = "decide"
            /\ UNCHANGED fp_data
       ELSE /\ fp_data' = [fp \in Range(FrameworkProgrammes) |->
                              [cordis_date |-> checkCordisDate(fp),
                               stored_date |-> checkLocalDataDate(fp)]]
            /\ pc' = "fetch"
    /\ UNCHANGED <<orgFiles, projFiles, country, previous, args, stored, newdata,
                   downloaded, pkl, filename, saved, df_orgs, df_projects, df_country,
                   df_country_orgs, df_country_projects, df_countries_summary,
                   calls_vars>>

\* the condition under which a programme's data are fetched
fetch_needed(d, force) ==
    \/ d.stored_date = NaN
    \/ later(d.cordis_date[1], d.stored_date[1])
    \/ force

\* the fetch loop: updateCordisData replaces the tables of each programme
\* that needs it, sets the flag and writes the date to cordis_date.txt
main_fetch ==
    /\ pc = "fetch"
    /\ LET fetch == {fp \in Range(FrameworkProgrammes) :
                        fetch_needed(fp_data[fp], args.force)}
       IN  /\ downloaded' = fetch
           /\ newdata' = (fetch # {})
           /\ stored' = [fp \in Range(FrameworkProgrammes) |->
                            IF fp \in fetch THEN <<strftime(fp_data[fp].cordis_date[1])>>
                            ELSE stored[fp]]
           /\ orgFiles' = [fp \in Range(FrameworkProgrammes) |->
                              IF fp \in fetch THEN CordisFiles.orgs[fp] ELSE orgFiles[fp]]
           /\ projFiles' = [fp \in Range(FrameworkProgrammes) |->
                               IF fp \in fetch THEN CordisFiles.projects[fp]
                               ELSE projFiles[fp]]
    /\ pc' = "decide"
    /\ UNCHANGED <<country, previous, args, fp_data, pkl, filename, saved, df_orgs,
                   df_projects, df_country, df_country_orgs, df_country_projects,
                   df_countries_summary,
                   calls_vars>>

\* a run that goes on with the local data whatever the switches
never_exit(flag, a) == FALSE

\* the run that stops without new data
no_updates_exit(flag, a) == ~flag /\ a.newonly

\* without new data: quit with --newonly, else load the pickled relations
\* or, without them, process the tables; with new data: process the tables
main_load ==
    /\ pc = "decide"
    /\ IF no_updates_exit(newdata, args)
       THEN /\ pc' = "exit_no_updates"
            /\ UNCHANGED <<df_orgs, df_projects>>
       ELSE IF ~newdata /\ pkl # <<>>
            THEN /\ df_projects' = pkl[1]
                 /\ df_orgs' = pkl[2]
                 /\ pc' = "validate"
            ELSE /\ pc' = "process"
                 /\ UNCHANGED <<df_orgs, df_projects>>
    /\ UNCHANGED <<inputs, pkl, saved, df_country, df_country_orgs,
                   df_country_projects, df_countries_summary>>

\* processCordisData() called by main: a programme without its tables
\* raises FileNotFoundError
main_processCordisData ==
    /\ pc = "process"
    /\ IF \E fp \in Range(FrameworkProgrammes) : stored[fp] = NaN
       THEN /\ pc' = "FileNotFoundError"
            /\ UNCHANGED <<df_orgs, df_projects, pkl>>
       ELSE /\ df_orgs' = processCordisData_orgs(orgFiles)
            /\ df_projects' = processCordisData_projects(projFiles)
            /\ pkl' = <<df_projects', df_orgs'>>
            /\ pc' = "validate"
    /\ UNCHANGED <<inputs, saved, df_country, df_country_orgs, df_country_projects,
                   df_countries_summary>>

\* the countries of one argument without the rule for GB
countries_of_iso(item) ==
    IF item \in DOMAIN country_sets THEN country_sets[item] ELSE <<item>>

\* the countries of one argument
countries_of(item) ==
    IF item \in DOMAIN country_sets THEN country_sets[item]
    ELSE IF item = "GB" THEN <<"UK">>
    ELSE <<item>>

\* selected_countries after the loop over the arguments
RECURSIVE selected_countries(_)
selected_countries(items) ==
    IF items = <<>> THEN <<>>
    ELSE countries_of(Head(items)) \o selected_countries(Tail(items))

\* an argument that is no preset, not GB and has no country name
invalid_country(items) ==
    \E i \in DOMAIN items :
        /\ items[i] \notin DOMAIN country_sets
        /\ items[i] # "GB"
        /\ get_country_name(items[i]) = ""

Today == "20230501"

\* the name of the spreadsheet
out_name(items, date) ==
    "HE_CORDIS_summary-" \o join("_", items) \o "-[" \o FormatInt(date.date)
        \o "_cordis_data]_" \o Today \o ".xlsx"

\* the validation of the country arguments and the file name, up to the
\* call of do_cordis_summary
main_countries ==
    /\ pc = "validate"
    /\ IF invalid_country(args.country)
       THEN /\ pc' = "exit_invalid_country"
            /\ UNCHANGED <<country, filename>>
       ELSE IF checkLocalDataDate("HORIZON") = NaN
            THEN /\ pc' = "AttributeError"
                 /\ UNCHANGED <<country, filename>>
            ELSE /\ country' = selected_countries(args.country)
                 /\ filename' = <<out_name(args.country, checkLocalDataDate("HORIZON")[1])>>
                 /\ pc' = "filter"
    /\ UNCHANGED <<orgFiles, projFiles, previous, args, fp_data, stored, newdata,
                   downloaded, pkl, saved, df_orgs, df_projects, df_country,
                   df_country_orgs, df_country_projects, df_countries_summary,
                   calls_vars>>

NextMain ==
    \/ main_check
    \/ main_fetch
    \/ main_load
    \/ main_processCordisData
    \/ main_countries
    \/ FilterJoin
    \/ OrgSummary
    \/ ProjectSummary
    \/ CountrySummary
    \/ Decorate

SpecMain == InitMain /\ [][NextMain]_vars

\* the positions at which a run of HE_CORDIS_updates has ended
MainEnded == {"done", "KeyError", "exit_no_updates", "exit_invalid_country",
              "AttributeError", "FileNotFoundError"}

\* the script is run again with the same arguments: the files of the
\* programme directories, the date markers and the pickle are what the
\* first run left, everything else starts afresh; previous records what
\* the first run downloaded
main_again ==
    /\ pc \in MainEnded
    /\ previous = <<>>
    /\ previous' = <<[downloaded |-> downloaded, newdata |-> newdata]>>
    /\ fp_data' = [fp \in Range(FrameworkProgrammes) |->
                      [cordis_date |-> NaN, stored_date |-> NaN]]
    /\ newdata' = FALSE
    /\ downloaded' = {}
    /\ country' = <<>>
    /\ filename' = <<>>
    /\ saved' = <<>>
    /\ pc' = "main"
    /\ df_orgs' = <<>>
    /\ df_projects' = <<>>
    /\ df_country' = <<>>
    /\ df_country_orgs' = <<>>
    /\ df_country_projects' = <<>>
    /\ df_countries_summary' = <<>>
    /\ UNCHANGED <<args, stored, orgFiles, projFiles, pkl, calls_vars>>

NextMainTwice == NextMain \/ main_again

SpecMainTwice == InitMain /\ [][NextMainTwice]_vars

(* ==================== HE_calls_updates.py: the calls ==================== *)
\* the calls of the funding portal: the fields of a GrantTenderObj that the
\* script's decisions depend on; a call identifier is written as its
\* cluster code, its year and its destination code
GrantTenderObjs ==
    << [ccm2Id |-> 1, divAbbrev |-> <<"HORIZON.2.5">>, title |-> "Topic A",
        callIdentifier |-> <<"HORIZON-CL5", 2023, "D2-01">>],
       [ccm2Id |-> 3, divAbbrev |-> <<"HORIZON.1.1">>, title |-> "Topic C",
        callIdentifier |-> <<"HORIZON-ERC", 2024, "STG">>],
       [ccm2Id |-> 2, divAbbrev |-> <<"HORIZON.2.4">>, title |-> "Topic B",
        callIdentifier |-> <<"HORIZON-CL4", 2024, "D1-02">>],
       [ccm2Id |-> 1, divAbbrev |-> <<"HORIZON.2.5">>, title |-> "Topic A (bis)",
        callIdentifier |-> <<"HORIZON-CL5", 2023, "D2-01">>],
       [ccm2Id |-> 4, divAbbrev |-> NaN, title |-> "Topic D",
        callIdentifier |-> <<"HORIZON-CL6", 2025, "D3-01">>] >>

\* the versions of grantsTenders.json: the first calls of the list
GrantsFiles == {SubSeq(GrantTenderObjs, 1, n) : n \in 1..MaxCalls}

\* str.contains("HORIZON.2", na=False) on the division abbreviation
Pillar2Abbrevs == {"HORIZON.2.4", "HORIZON.2.5"}
contains_HORIZON_2(a) == notna(a) /\ a[1] \in Pillar2Abbrevs

\* file names, written as their parts
OldName == <<"HE_calls", "_", "2024-04-16", ".xlsx">>
DraftName == <<"HE_calls", "_new_", "draft", ".xlsx">>
LockName == <<"~$", "HE_calls", "_", "2024-04-16", ".xlsx">>
BudgetName == <<"budget", ".xlsx">>
CsvName == <<"HE_calls", "_", "2024-04-16", ".csv">>
calls_today == "2024-05-01"
calls_today_compact == "20240501"
out_file_name == <<"HE_calls", "_", calls_today, ".xlsx">>

\* parts of a name in which the text 'new' occurs
PartsWithNew == {"_new_"}
contains_new(name) == \E i \in DOMAIN name : name[i] \in PartsWithNew
startswith(name, prefix) == name # <<>> /\ name[1] = prefix
endswith(name, suffix) == name # <<>> /\ name[Len(name)] = suffix

\* a spreadsheet of the working directory: its name and its ccm2Id column
\* (NaN when the sheet has no such column)
XlsxFile(name, ids) == [name |-> name, ccm2Id |-> ids]

\* the working directory before the run, oldest file first
Directories ==
    { <<>>,
      <<XlsxFile(OldName, <<{1}>>)>>,
      <<XlsxFile(OldName, <<{1, 2}>>)>>,
      <<XlsxFile(OldName, <<{1}>>), XlsxFile(DraftName, <<{1, 2}>>)>>,
      <<XlsxFile(DraftName, <<{1, 2}>>), XlsxFile(LockName, NaN)>>,
      <<XlsxFile(BudgetName, NaN)>>,
      <<XlsxFile(OldName, <<{1}>>), XlsxFile(out_file_name, <<{1, 2}>>)>>,
      <<XlsxFile(OldName, <<{1}>>), XlsxFile(BudgetName, NaN)>> }

\* the values of the file argument
FileArguments == {NaN, <<OldName>>, <<BudgetName>>, <<CsvName>>}

calls_parse_arguments ==
    [newonly : BOOLEAN, local : BOOLEAN, calendars : BOOLEAN, file : FileArguments]

InitCalls ==
    /\ cpc = "main"
    /\ calls_args \in calls_parse_arguments
    /\ server_json \in GrantsFiles
    /\ local_json \in {NaN} \cup {<<g>> : g \in GrantsFiles}
    /\ xlsx_files \in Directories
    /\ grantsdata = <<>>
    /\ df_calls = <<>>
    /\ compare_file = <<>>
    /\ new_data = FALSE
    /\ calls_saved = <<>>
    /\ calendars_saved = {}
    /\ orgFiles = <<>>
    /\ projFiles = <<>>
    /\ country = <<>>
    /\ pc = "idle"
    /\ df_orgs = <<>>
    /\ df_projects = <<>>
    /\ df_country = <<>>
    /\ df_country_orgs = <<>>
    /\ df_country_projects = <<>>
    /\ df_countries_summary = <<>>
    /\ previous = <<>>
    /\ args = <<>>
    /\ fp_data = <<>>
    /\ stored = <<>>
    /\ newdata = FALSE
    /\ downloaded = {}
    /\ pkl = <<>>
    /\ filename = <<>>
    /\ saved = <<>>

\* main, lines 334-349: the stored JSON with --local (the run is aborted
\* without it), else the download, of which a copy is saved
calls_get_data ==
    /\ cpc = "main"
    /\ IF calls_args.local
       THEN IF notna(local_json)
            THEN /\ grantsdata' = local_json[1]
                 /\ cpc' = "process_data"
                 /\ UNCHANGED local_json
            ELSE /\ cpc' = "aborted"
                 /\ UNCHANGED <<grantsdata, local_json>>
       ELSE /\ grantsdata' = server_json
            /\ local_json' = <<server_json>>
            /\ cpc' = "process_data"
    /\ UNCHANGED <<cordis_vars, calls_args, server_json, xlsx_files, df_calls,
                   compare_file, new_data, calls_saved, calendars_saved>>

\* df.drop_duplicates(subset='ccm2Id'): the first row of each id
RECURSIVE drop_duplicate_calls(_)
drop_duplicate_calls(rows) ==
    IF rows = <<>> THEN <<>>
    ELSE LET rest == drop_duplicate_calls(SubSeq(rows, 1, Len(rows) - 1))
             last == rows[Len(rows)]
         IN  IF \E i \in DOMAIN rest : rest[i].ccm2Id = last.ccm2Id
             THEN rest ELSE Append(rest, last)

\* re.search(r"[0-9]{4}", callIdentifier), as an integer
callYear(callIdentifier) == callIdentifier[2]

\* process_data: the pillar 2 calls, once each, with the year of the call
process_data(data) ==
    LET pillar2 == SelectSeq(data, LAMBDA c : contains_HORIZON_2(c.divAbbrev))
        once == drop_duplicate_calls(pillar2)
    IN  [i \in DOMAIN once |->
            [ccm2Id |-> once[i].ccm2Id,
             callYear |-> callYear(once[i].callIdentifier),
             callId |-> once[i].callIdentifier,
             topicTitle |-> once[i].title]]

calls_process_data ==
    /\ cpc = "process_data"
    /\ df_calls' = process_data(grantsdata)
    /\ cpc' = "compare_file"
    /\ UNCHANGED <<cordis_vars, calls_args, server_json, local_json, xlsx_files,
                   grantsdata, compare_file, new_data, calls_saved, calendars_saved>>

\* False where a file name is expected: no name has no parts
False == <<>>

\* os.path.isfile in the working directory
isfile(name) == \E i \in DOMAIN xlsx_files : xlsx_files[i].name = name

\* get_last_file: the newest .xlsx file whose name starts with HE_calls, is
\* no lock file and does not contain 'new'; False without one
get_last_file ==
    LET excel_files == SelectSeq(xlsx_files, LAMBDA f :
                           /\ ~contains_new(f.name)
                           /\ ~startswith(f.name, "~$")
                           /\ startswith(f.name, "HE_calls"))
    IN  IF excel_files = <<>> THEN False
        ELSE excel_files[Len(excel_files)].name

\* main, lines 353-366: the compare file
choose_compare_file ==
    IF notna(calls_args.file)
    THEN IF endswith(calls_args.file[1], ".xlsx") /\ isfile(calls_args.file[1])
         THEN calls_args.file[1]
         ELSE False
    ELSE get_last_file

calls_compare_file ==
    /\ cpc = "compare_file"
    /\ compare_file' = choose_compare_file
    /\ cpc' = "compare_calls"
    /\ UNCHANGED <<cordis_vars, calls_args, server_json, local_json, xlsx_files,
                   grantsdata, df_calls, new_data, calls_saved, calendars_saved>>

\* pd.read_excel(compare_file)
read_excel(name) == xlsx_files[CHOOSE i \in DOMAIN xlsx_files : xlsx_files[i].name = name]

\* compare_calls: the calls whose ccm2Id is not in the compare file
compare_calls(calls, df_prev) ==
    SelectSeq(calls, LAMBDA c : c.ccm2Id \notin df_prev.ccm2Id[1])

\* main, lines 370-379: the comparison; a compare file without a ccm2Id
\* column raises KeyError
calls_compare_calls ==
    /\ cpc = "compare_calls"
    /\ IF compare_file = False
       THEN /\ new_data' = FALSE
            /\ cpc' = "write"
       ELSE IF read_excel(compare_file).ccm2Id = NaN
            THEN /\ cpc' = "KeyError"
                 /\ UNCHANGED new_data
            ELSE /\ new_data' = (Len(compare_calls(df_calls, read_excel(compare_file))) > 0)
                 /\ cpc' = "write"
    /\ UNCHANGED <<cordis_vars, calls_args, server_json, local_json, xlsx_files,
                   grantsdata, df_calls, compare_file, calls_saved, calendars_saved>>

write_outputs_always(flag, a) == TRUE

\* the decision of line 381
write_outputs(flag, a) == flag \/ ~a.newonly

\* write_to_excel: the file replaces one of the same name and is the newest
write_to_excel(calls, file_path) ==
    Append(SelectSeq(xlsx_files, LAMBDA f : f.name # file_path),
           XlsxFile(file_path, <<{calls[i].ccm2Id : i \in DOMAIN calls}>>))

\* save_call_calendar: the name of the calendar of a year
savename(call_year) ==
    <<"HE_calendar-", call_year, "_calls-", calls_today_compact, ".pdf">>

\* main, lines 381-391: the spreadsheet and, with --calendars, a calendar
\* for each call year
calls_write ==
    /\ cpc = "write"
    /\ IF write_outputs(new_data, calls_args)
       THEN /\ xlsx_files' = write_to_excel(df_calls, out_file_name)
            /\ calls_saved' = <<out_file_name>>
            /\ calendars_saved' =
                   IF calls_args.calendars
                   THEN {savename(df_calls[i].callYear) : i \in DOMAIN df_calls}
                   ELSE {}
       ELSE UNCHANGED <<xlsx_files, calls_saved, calendars_saved>>
    /\ cpc' = "done"
    /\ UNCHANGED <<cordis_vars, calls_args, server_json, local_json, grantsdata,
                   df_calls, compare_file, new_data>>

NextCalls ==
    \/ calls_get_data
    \/ calls_process_data
    \/ calls_compare_file
    \/ calls_compare_calls
    \/ calls_write

SpecCalls == InitCalls /\ [][NextCalls]_vars

(* ======================= the claims, C1 to C10 ========================= *)
\* positions of the script at which a table exists and holds plain ids
DetailComputed == {"orgs", "projects", "countries", "links", "KeyError"}
OrgsComputed == {"projects", "countries", "links", "done"}
ProjectsComputed == {"countries", "links"}
AllComputed == {"links"}
Returned == {"done", "KeyError"}

\* the participation rows whose country is in the country list
FilteredIdx == {i \in DOMAIN df_orgs : df_orgs[i].country \in Range(country)}

\* the organisation id of a participation row, NaN replaced by -1
PicOf(r) == IF r.organisationID = NaN THEN 0 - 1 ELSE r.organisationID[1]

\* the sum of the contributions of the rows I of df; none of them is NaN
RECURSIVE SumOver(_, _)
SumOver(df, I) ==
    IF I = {} THEN 0
    ELSE LET i == CHOOSE i \in I : TRUE
         IN  df[i].ecContribution[1] + SumOver(df, I \ {i})

\* the rows of df that satisfy P and have a contribution / a positive one
WithValue(df, P(_)) == {i \in DOMAIN df : P(df[i]) /\ df[i].ecContribution # NaN}
Positive(df, P(_)) ==
    {i \in DOMAIN df : P(df[i]) /\ df[i].ecContribution # NaN
                                /\ df[i].ecContribution[1] > 0}
ProjectsOf(df, P(_)) == {df[i].projectID : i \in {j \in DOMAIN df : P(df[j])}}

FpLabel(fp) == IF fp = "HORIZON" THEN "HEU" ELSE fp

\* the triples of a summary row
OrgTriple(o, fp) ==
    <<o[FpLabel(fp) \o " projects"], o[FpLabel(fp) \o " funded projects"],
      o[FpLabel(fp) \o " total funding (EUR)"]>>
CountryTriple(c, fp) ==
    <<c[FpLabel(fp) \o " projects"], c[FpLabel(fp) \o " funded projects"],
      c[FpLabel(fp) \o " funding (EUR)"]>>

\* C1: whenever the organisation summary has been produced, it has exactly
\* one row for each organisationId (NaN taken as -1) of the participation
\* rows whose country is in the country list: no id twice, none missing.
C1_OneRowPerOrganisation ==
    pc \in OrgsComputed =>
        /\ \A i, j \in DOMAIN df_country_orgs :
              i # j => df_country_orgs[i].PIC # df_country_orgs[j].PIC
        /\ {df_country_orgs[i].PIC : i \in DOMAIN df_country_orgs}
              = {PicOf(df_orgs[i]) : i \in FilteredIdx}

\* C1 witness: a summary with the bucket -1, produced from a detail relation
\* that the join has multiplied and that repeats an organisationId
C1_Witness ==
    /\ pc = "projects"
    /\ Len(df_country) > Cardinality(FilteredIdx)
    /\ Len(df_country_orgs) < Len(df_country)
    /\ \E i \in DOMAIN df_country_orgs : df_country_orgs[i].PIC = 0 - 1

\* C2: in every row of the organisation summary the three per-programme
\* contribution sums add up to the row's total contribution.
C2_PivotReconciles ==
    pc \in OrgsComputed =>
        \A i \in DOMAIN df_country_orgs :
            LET o == df_country_orgs[i]
            IN  OrgTriple(o, "FP7")[3] + OrgTriple(o, "H2020")[3]
                    + OrgTriple(o, "HORIZON")[3] = o["Total EU funding (EUR)"]

\* C2 witness: an organisation with contributions in two programmes, one of
\* them negative
C2_Witness ==
    /\ pc = "projects"
    /\ \E i \in DOMAIN df_country_orgs :
          /\ OrgTriple(df_country_orgs[i], "FP7")[3] > 0
          /\ OrgTriple(df_country_orgs[i], "H2020")[3] < 0

\* C3 (as claimed): in every row of the project summary the matched-country
\* contribution is at most the total contribution when the country list is
\* a subset of the project's participating countries, and equal to it when
\* the list contains every participating country.
C3_MatchedAtMostTotal ==
    pc \in ProjectsComputed =>
        \A i \in DOMAIN df_country_projects :
            LET p == df_country_projects[i]
                participating == Range(p["All countries"])
            IN  /\ Range(country) \subseteq participating =>
                      p.country_ecContribution[1] <= p.total_ecContribution[1]
                /\ participating \subseteq Range(country) =>
                      p.country_ecContribution[1] = p.total_ecContribution[1]

\* C4 (as claimed): once do_cordis_summary has got past a summary, and the
\* filter result is not empty, every filtered organisation (country) has a
\* summary row with a triple for each programme, and the triple is (0, 0, 0)
\* for a programme in which it has no filtered row.
C4_TriplesZeroFilled ==
    /\ (pc \in OrgsComputed \cup Returned /\ FilteredIdx # {}) =>
          \A i \in FilteredIdx : \E k \in DOMAIN df_country_orgs :
              /\ df_country_orgs[k].PIC = PicOf(df_orgs[i])
              /\ \A fp \in Range(FrameworkProgrammes) :
                    (\A j \in FilteredIdx :
                        PicOf(df_orgs[j]) = PicOf(df_orgs[i])
                            => df_orgs[j].frameworkProgramme # fp)
                    => OrgTriple(df_country_orgs[k], fp) = <<0, 0, 0>>
    /\ (pc \in AllComputed \cup Returned /\ FilteredIdx # {}) =>
          \A i \in FilteredIdx : \E k \in DOMAIN df_countries_summary :
              /\ df_countries_summary[k].country = df_orgs[i].country
              /\ \A fp \in Range(FrameworkProgrammes) :
                    (\A j \in FilteredIdx :
                        df_orgs[j].country = df_orgs[i].country
                            => df_orgs[j].frameworkProgramme # fp)
                    => CountryTriple(df_countries_summary[k], fp) = <<0, 0, 0>>

\* C5 (as claimed): when no participation row is in the country list,
\* do_cordis_summary does not raise, and it returns empty summaries.
C5_EmptyFilterCompletes ==
    (pc \notin {"load", "filter"} /\ FilteredIdx = {}) =>
        /\ pc # "KeyError"
        /\ pc = "done" => /\ df_country_orgs = <<>>
                          /\ df_country_projects = <<>>
                          /\ df_countries_summary = <<>>

\* C6 (as claimed): a second run on the same participation relation,
\* project relation and country list produces the same four tables as the
\* first, the text of 'Framework programmes' included.
C6_SecondRunIdentical ==
    (pc = "done" /\ previous # <<>>) =>
        previous = <<df_country, df_country_orgs, df_country_projects,
                     df_countries_summary>>

\* C7: a row whose ecContribution is NaN adds nothing to the sums it falls
\* into and is in no funded-project count, and its project is counted: every
\* contribution sum of the three summaries is the sum over the rows that
\* have a value (a positive value for the project sums), every
\* funded-project count is the number of rows with a positive value, and
\* every project count is the number of projectIDs of all the rows.
C7_NullContribution ==
    pc \in AllComputed =>
        /\ \A k \in DOMAIN df_country_orgs :
              LET o == df_country_orgs[k]
                  Mine(r) == r.PIC = o.PIC
              IN  /\ o["Total EU funding (EUR)"]
                        = SumOver(df_country, WithValue(df_country, Mine))
                  /\ o.projectCount = Cardinality(ProjectsOf(df_country, Mine))
                  /\ \A fp \in Range(FrameworkProgrammes) :
                        LET MineFp(r) == r.PIC = o.PIC /\ r.frameworkProgramme = fp
                        IN  OrgTriple(o, fp) =
                              <<Cardinality(ProjectsOf(df_country, MineFp)),
                                Cardinality(Positive(df_country, MineFp)),
                                SumOver(df_country, WithValue(df_country, MineFp))>>
        /\ \A k \in DOMAIN df_countries_summary :
              LET c == df_countries_summary[k]
                  Mine(r) == r.country = c.country
              IN  /\ c["Total funding (EUR)"]
                        = SumOver(df_country, WithValue(df_country, Mine))
                  /\ c["Total funded projects"]
                        = Cardinality(Positive(df_country, Mine))
                  /\ c["Total projects"] = Cardinality(ProjectsOf(df_country, Mine))
                  /\ \A fp \in Range(FrameworkProgrammes) :
                        LET MineFp(r) == r.country = c.country
                                            /\ r.frameworkProgramme = fp
                        IN  CountryTriple(c, fp) =
                              <<Cardinality(ProjectsOf(df_country, MineFp)),
                                Cardinality(Positive(df_country, MineFp)),
                                SumOver(df_country, WithValue(df_country, MineFp))>>
        /\ \A k \in DOMAIN df_country_projects :
              LET p == df_country_projects[k]
                  Mine(r) == r.projectID = p.projectID
              IN  /\ p.country_ecContribution
                        = <<SumOver(df_country, Positive(df_country, Mine))>>
                  /\ p.total_ecContribution
                        = <<SumOver(df_orgs, Positive(df_orgs, Mine))>>

\* C7 witness: a country whose only row in a programme has no contribution:
\* one project, no funded project
C7_Witness ==
    /\ pc = "links"
    /\ \E k \in DOMAIN df_countries_summary, fp \in Range(FrameworkProgrammes) :
          /\ CountryTriple(df_countries_summary[k], fp) = <<1, 0, 0>>
          /\ \E i \in DOMAIN df_country :
                /\ df_country[i].country = df_countries_summary[k].country
                /\ df_country[i].frameworkProgramme = fp
                /\ df_country[i].ecContribution = NaN

\* the project records of the projectID of participation row i
MatchingRecords(i) ==
    {j \in DOMAIN df_projects : df_projects[j].projectID = df_orgs[i].projectID}

\* the detail rows that carry the participation row r
DetailRowsOf(r) ==
    {d \in DOMAIN df_country :
        /\ df_country[d].frameworkProgramme = r.frameworkProgramme
        /\ df_country[d].projectID = r.projectID
        /\ df_country[d].projectAcronym = r.projectAcronym
        /\ df_country[d].PIC = PicOf(r)
        /\ df_country[d].Organisation = r.name
        /\ df_country[d].country = r.country
        /\ df_country[d].ecContribution = r.ecContribution}

\* the filtered participation rows equal to participation row i
SameRows(i) == {j \in FilteredIdx : df_orgs[j] = df_orgs[i]}

NoProjectColumns(d) ==
    /\ d.title = NaN /\ d["Type of action"] = NaN /\ d.subCall = NaN
    /\ d.ecSignatureDate = NaN /\ d.startDate = NaN /\ d.endDate = NaN

\* the join keeps every filtered row: once, with empty project columns,
\* when no project record has its projectID, and once for each of the k
\* records that have it; rows outside the country list are not in it
JoinKeepsRows ==
    /\ \A d \in DOMAIN df_country : \E i \in FilteredIdx : d \in DetailRowsOf(df_orgs[i])
    /\ \A i \in FilteredIdx :
          LET D == DetailRowsOf(df_orgs[i])
              n == Cardinality(SameRows(i))
          IN  IF MatchingRecords(i) = {}
              THEN /\ Cardinality(D) = n
                   /\ \A d \in D : NoProjectColumns(df_country[d])
              ELSE /\ Cardinality(D) = n * Cardinality(MatchingRecords(i))
                   /\ \A j \in MatchingRecords(i) :
                         Cardinality({d \in D :
                             /\ df_country[d].title = df_projects[j].title
                             /\ df_country[d]["Type of action"]
                                    = df_projects[j].fundingScheme
                             /\ df_country[d].subCall = df_projects[j].subCall
                             /\ df_country[d].startDate = df_projects[j].startDate}) = n

OneDetailRowPerFilteredRow == Len(df_country) = Cardinality(FilteredIdx)

ProjectIdsUnique ==
    \A i, j \in DOMAIN df_projects :
        i # j => df_projects[i].projectID # df_projects[j].projectID

\* C8 (as claimed): the join keeps every filtered row, once or k times, and
\* so the detail relation has one row per filtered participation row exactly
\* when the projectIDs are unique in the project relation.
C8_JoinKeepsRowsIffUniqueIds ==
    pc \in DetailComputed =>
        /\ JoinKeepsRows
        /\ OneDetailRowPerFilteredRow <=> ProjectIdsUnique

\* C8 (amended): the join keeps every filtered row, once or k times, and so
\* the detail relation has one row per filtered participation row exactly
\* when no filtered row has a projectID that two project records carry.
C8_JoinKeepsRows ==
    pc \in DetailComputed =>
        /\ JoinKeepsRows
        /\ OneDetailRowPerFilteredRow
              <=> \A i \in FilteredIdx : Cardinality(MatchingRecords(i)) <= 1

\* C8 witness: one filtered row without a project record and one with two
C8_Witness ==
    /\ pc = "orgs"
    /\ \E i \in FilteredIdx : MatchingRecords(i) = {}
    /\ \E i \in FilteredIdx : Cardinality(MatchingRecords(i)) = 2
    /\ Len(df_country) = Cardinality(FilteredIdx) + 1

\* the country codes that have a display name
HasName(code) == code \in {"NZ", "AU", "TV", "UK", "GB", "XK"}

\* C9: a filtered row whose country code has no display name has the
\* countryName "" in the detail relation, and where the summaries are
\* produced its organisation, project and country each have their row, the
\* country row with the name ""; a row with the code UK has the name of GB.
C9_UnknownCountryCode ==
    /\ pc \in DetailComputed =>
          \A i \in FilteredIdx :
              /\ DetailRowsOf(df_orgs[i]) # {}
              /\ \A d \in DetailRowsOf(df_orgs[i]) :
                    /\ ~HasName(df_orgs[i].country) => df_country[d].countryName = ""
                    /\ df_orgs[i].country = "UK"
                          => df_country[d].countryName = "United Kingdom"
    /\ pc \in AllComputed =>
          \A i \in FilteredIdx :
              ~HasName(df_orgs[i].country) =>
                  /\ \E k \in DOMAIN df_country_orgs :
                        df_country_orgs[k].PIC = PicOf(df_orgs[i])
                  /\ \E k \in DOMAIN df_country_projects :
                        df_country_projects[k].projectAcronym = df_orgs[i].projectAcronym
                  /\ \E k \in DOMAIN df_countries_summary :
                        /\ df_countries_summary[k].country = df_orgs[i].country
                        /\ df_countries_summary[k].countryName = ""

\* C9 witness: the summaries of a run with a row of the nameless code XX
C9_Witness ==
    /\ pc = "links"
    /\ \E i \in FilteredIdx : df_orgs[i].country = "XX"
    /\ \E k \in DOMAIN df_countries_summary : df_countries_summary[k].country = "XX"

\* C10: the project summary has exactly one row for each project acronym of
\* the filtered rows; its matched countries are the countries of the
\* filtered rows of that acronym, its all countries those of all the
\* participation rows of that acronym, so the former are among the latter.
C10_ProjectRowsAndCountries ==
    pc \in ProjectsComputed =>
        /\ \A i, j \in DOMAIN df_country_projects :
              i # j => df_country_projects[i].projectAcronym
                          # df_country_projects[j].projectAcronym
        /\ {df_country_projects[i].projectAcronym : i \in DOMAIN df_country_projects}
              = {df_orgs[i].projectAcronym : i \in FilteredIdx}
        /\ \A k \in DOMAIN df_country_projects :
              LET p == df_country_projects[k]
              IN  /\ Range(p["Matched countries"])
                        = {df_orgs[i].country :
                              i \in {j \in FilteredIdx :
                                        df_orgs[j].projectAcronym = p.projectAcronym}}
                  /\ Range(p["All countries"])
                        = {df_orgs[i].country :
                              i \in {j \in DOMAIN df_orgs :
                                        df_orgs[j].projectAcronym = p.projectAcronym}}
                  /\ Range(p["Matched countries"]) \subseteq Range(p["All countries"])

\* C10 witness: a project with two participating countries, one of them
\* outside the country list
C10_Witness ==
    /\ pc = "countries"
    /\ \E k \in DOMAIN df_country_projects :
          /\ Len(df_country_projects[k]["Matched countries"]) = 1
          /\ Len(df_country_projects[k]["All countries"]) = 2

(* ======================= the claims, C11 to C20 ======================== *)
\* the participation rows among I whose contribution is strictly positive
PositiveRows(I) ==
    {i \in I : df_orgs[i].ecContribution # NaN /\ df_orgs[i].ecContribution[1] > 0}

\* the participation rows among I of the project with id
RowsOfProject(I, id) == {i \in I : df_orgs[i].projectID = id}

\* C11 (as claimed): in every row of the project summary the matched-country
\* contribution is the sum of the strictly positive ecContribution of the
\* filtered participation rows of the row's projectID, and the total
\* contribution is that sum over all participation rows of the projectID;
\* zero, negative and missing values are in neither sum.
C11_PositiveSums ==
    pc \in ProjectsComputed =>
        \A k \in DOMAIN df_country_projects :
            LET p == df_country_projects[k]
            IN  /\ p.country_ecContribution
                      = <<SumOver(df_orgs,
                            PositiveRows(RowsOfProject(FilteredIdx, p.projectID)))>>
                /\ p.total_ecContribution
                      = <<SumOver(df_orgs,
                            PositiveRows(RowsOfProject(DOMAIN df_orgs, p.projectID)))>>

\* positions of the script at which the country summary exists
CountriesComputed == {"links", "done"}

\* the filtered participation rows of country c
RowsOfCountry(c) == {i \in FilteredIdx : df_orgs[i].country = c}

\* C12: whenever the country summary has been produced, it has exactly one
\* row for each country of the filtered rows, and the project acronyms of
\* the row are the acronyms of the filtered rows of that country, each once.
C12_OneRowPerCountry ==
    pc \in CountriesComputed =>
        /\ \A i, j \in DOMAIN df_countries_summary :
              i # j => df_countries_summary[i].country # df_countries_summary[j].country
        /\ {df_countries_summary[k].country : k \in DOMAIN df_countries_summary}
              = {df_orgs[i].country : i \in FilteredIdx}
        /\ \A k \in DOMAIN df_countries_summary :
              LET acronyms == df_countries_summary[k]["Project acronyms"]
              IN  /\ Range(acronyms)
                        = {df_orgs[i].projectAcronym :
                              i \in RowsOfCountry(df_countries_summary[k].country)}
                  /\ \A i, j \in DOMAIN acronyms : i # j => acronyms[i] # acronyms[j]

\* C12 witness: a summary of two countries, one of them with more detail
\* rows than acronyms
C12_Witness ==
    /\ pc = "links"
    /\ Len(df_countries_summary) = 2
    /\ \E k \in DOMAIN df_countries_summary :
          Len(df_countries_summary[k]["Project acronyms"])
              < Cardinality({d \in DOMAIN df_country :
                    df_country[d].country = df_countries_summary[k].country})

\* the sum of column n of the three triples of country row c
TripleSum(c, n) ==
    CountryTriple(c, "FP7")[n] + CountryTriple(c, "H2020")[n]
        + CountryTriple(c, "HORIZON")[n]

\* C13: in every row of the country summary the totals are taken over all
\* the detail rows of the country whatever their programme, and they
\* reconcile with the triples: the total funding is the sum of the three
\* contribution sums, the total of funded projects the sum of the three
\* funded counts, and the total of projects, the number of distinct
\* projectIDs of the country's filtered rows, is at most the sum of the three
\* project counts and equal to it when no projectID of the country is under
\* two programmes.
C13_CountryTotalsReconcile ==
    /\ pc \in CountriesComputed =>
          \A k \in DOMAIN df_countries_summary :
              LET c == df_countries_summary[k]
                  rows == RowsOfCountry(c.country)
              IN  /\ c["Total funding (EUR)"] = TripleSum(c, 3)
                  /\ c["Total funded projects"] = TripleSum(c, 2)
                  /\ c["Total projects"]
                        = Cardinality({df_orgs[i].projectID : i \in rows})
                  /\ c["Total projects"] <= TripleSum(c, 1)
                  /\ (\A i, j \in rows :
                          df_orgs[i].projectID = df_orgs[j].projectID
                              => df_orgs[i].frameworkProgramme
                                    = df_orgs[j].frameworkProgramme)
                        => c["Total projects"] = TripleSum(c, 1)
    /\ pc \in AllComputed =>
          \A k \in DOMAIN df_countries_summary :
              LET c == df_countries_summary[k]
                  Mine(r) == r.country = c.country
              IN  /\ c["Total funding (EUR)"]
                        = SumOver(df_country, WithValue(df_country, Mine))
                  /\ c["Total funded projects"]
                        = Cardinality(Positive(df_country, Mine))

\* C13 witness: a country with a projectID under two programmes, fewer
\* projects in total than in the three programmes together, and a negative
\* contribution in one programme
C13_Witness ==
    /\ pc = "links"
    /\ \E k \in DOMAIN df_countries_summary :
          /\ df_countries_summary[k]["Total projects"]
                < TripleSum(df_countries_summary[k], 1)
          /\ CountryTriple(df_countries_summary[k], "HORIZON")[3] < 5
          /\ df_countries_summary[k]["Total funded projects"] = 3

\* C14 (as claimed): in the organisation summary and in the country summary
\* the funded-project count of every key and programme is at most the
\* project count of the same key and programme, and a country's total of
\* funded projects is at most its total of projects.
C14_FundedAtMostProjects ==
    /\ pc \in OrgsComputed =>
          \A k \in DOMAIN df_country_orgs, fp \in Range(FrameworkProgrammes) :
              OrgTriple(df_country_orgs[k], fp)[2] <= OrgTriple(df_country_orgs[k], fp)[1]
    /\ pc \in CountriesComputed =>
          \A k \in DOMAIN df_countries_summary :
              /\ \A fp \in Range(FrameworkProgrammes) :
                    CountryTriple(df_countries_summary[k], fp)[2]
                        <= CountryTriple(df_countries_summary[k], fp)[1]
              /\ df_countries_summary[k]["Total funded projects"]
                    <= df_countries_summary[k]["Total projects"]

\* positions of the script at which the organisation summary exists and
\* the detail relation holds plain ids
OrgsAndPlainDetail == {"projects", "countries", "links"}

\* the first detail row with the organisation id pic
FirstAppearance(pic) ==
    CHOOSE d \in DOMAIN df_country :
        /\ df_country[d].PIC = pic
        /\ \A e \in 1..(d - 1) : df_country[e].PIC # pic

\* C15: the rows of the organisation summary are in the order in which their
\* organisation ids first appear in the filtered-and-joined relation.
C15_OrderOfFirstAppearance ==
    pc \in OrgsAndPlainDetail =>
        \A a, b \in DOMAIN df_country_orgs :
            a < b => FirstAppearance(df_country_orgs[a].PIC)
                        < FirstAppearance(df_country_orgs[b].PIC)

\* C15 witness: a summary of three organisations that is not in the order of
\* the ids, from a detail relation that repeats an id
C15_Witness ==
    /\ pc = "projects"
    /\ Len(df_country_orgs) = 3
    /\ Len(df_country) > 3
    /\ \E a, b \in DOMAIN df_country_orgs :
          a < b /\ df_country_orgs[a].PIC > df_country_orgs[b].PIC

\* the filtered participation rows without an organisationID
NoIdRows == {i \in FilteredIdx : df_orgs[i].organisationID = NaN}

\* the rows of the organisation summary with the id -1
BucketRows == {k \in DOMAIN df_country_orgs : df_country_orgs[k].PIC = 0 - 1}

Bucket(r) == r.PIC = 0 - 1

\* C16: when filtered participation rows have no organisationID, each of
\* them is in the detail relation with the id -1, and the organisation
\* summary has one row with the id -1 that aggregates them all: its project
\* count, contribution sums and funded counts are those of all the detail
\* rows with the id -1, and (where the join doubles no row) its total is the
\* sum over the filtered rows without id and its project count the number
\* of their projectIDs.
C16_NoIdBucket ==
    (pc \in OrgsAndPlainDetail /\ NoIdRows # {}) =>
        /\ \A i \in NoIdRows : DetailRowsOf(df_orgs[i]) # {}
        /\ \A d \in DOMAIN df_country :
              df_country[d].PIC = 0 - 1
                  => \E i \in NoIdRows : d \in DetailRowsOf(df_orgs[i])
        /\ Cardinality(BucketRows) = 1
        /\ \A k \in BucketRows :
              LET o == df_country_orgs[k]
              IN  /\ o.projectCount
                        = Cardinality({df_orgs[i].projectID : i \in NoIdRows})
                  /\ o["Total EU funding (EUR)"]
                        = SumOver(df_country, WithValue(df_country, Bucket))
                  /\ (\A i \in NoIdRows : Cardinality(MatchingRecords(i)) <= 1)
                        => o["Total EU funding (EUR)"]
                              = SumOver(df_orgs,
                                  {i \in NoIdRows : df_orgs[i].ecContribution # NaN})
                  /\ \A fp \in Range(FrameworkProgrammes) :
                        LET BucketFp(r) == r.PIC = 0 - 1 /\ r.frameworkProgramme = fp
                        IN  OrgTriple(o, fp) =
                              <<Cardinality(ProjectsOf(df_country, BucketFp)),
                                Cardinality(Positive(df_country, BucketFp)),
                                SumOver(df_country, WithValue(df_country, BucketFp))>>

\* C16 witness: two organisations without id, of two countries and in two
\* programmes, in the one row -1 of the summary
C16_Witness ==
    /\ pc = "projects"
    /\ \E i, j \in NoIdRows :
          /\ df_orgs[i].name # df_orgs[j].name
          /\ df_orgs[i].country # df_orgs[j].country
          /\ df_orgs[i].frameworkProgramme # df_orgs[j].frameworkProgramme
    /\ \E k \in BucketRows :
          /\ df_country_orgs[k].projectCount = 2
          /\ df_country_orgs[k]["Total EU funding (EUR)"] = 8

\* the text of the identifiers that occur
IdText(id) ==
    CASE id = 0 - 1 -> "-1" [] id = 1 -> "1" [] id = 3 -> "3"
      [] id = 100 -> "100" [] id = 200 -> "200" [] id = 300 -> "300"
      [] id = 400 -> "400"

\* a link to base followed by the identifier, labelled with the identifier
LinkTo(base, id) ==
    "=HYPERLINK(\"" \o base \o IdText(id) \o "\", \"" \o IdText(id) \o "\")"

OrgDetailsUrl ==
    "https://ec.europa.eu/info/funding-tenders/opportunities/portal/screen/how-to-participate/org-details/"

CordisProjectUrl == "https://cordis.europa.eu/project/id/"

\* C17: the steps that compute the summaries start from a detail relation
\* with the plain identifiers of the participation rows and leave it as it
\* is; only the step after the three summaries decorates: it turns PIC and
\* projectID of every detail row and projectID of every project summary row
\* into the link to the base URL followed by the identifier, labelled with
\* the identifier, and changes no other column, no row count, and neither
\* the organisation summary nor the country summary.
C17_DecorationLast ==
    [][ /\ pc \in {"orgs", "projects", "countries"} =>
              /\ \A d \in DOMAIN df_country :
                    /\ df_country[d].PIC \in {PicOf(df_orgs[i]) : i \in FilteredIdx}
                    /\ df_country[d].projectID
                          \in {df_orgs[i].projectID : i \in FilteredIdx}
              /\ df_country' = df_country
              /\ pc = "countries" => df_country_projects' = df_country_projects
        /\ pc = "links" =>
              /\ pc' = "done"
              /\ df_country_orgs' = df_country_orgs
              /\ df_countries_summary' = df_countries_summary
              /\ DOMAIN df_country' = DOMAIN df_country
              /\ \A d \in DOMAIN df_country :
                    df_country'[d]
                      = [df_country[d] EXCEPT
                            !.PIC = LinkTo(OrgDetailsUrl, df_country[d].PIC),
                            !.projectID = LinkTo(CordisProjectUrl, df_country[d].projectID)]
              /\ DOMAIN df_country_projects' = DOMAIN df_country_projects
              /\ \A k \in DOMAIN df_country_projects :
                    df_country_projects'[k]
                      = [df_country_projects[k] EXCEPT
                            !.projectID =
                                LinkTo(CordisProjectUrl, df_country_projects[k].projectID)]
      ]_vars

\* C17 witness: the decorated tables of a run with the organisation id -1
C17_Witness ==
    /\ pc = "done"
    /\ \E d \in DOMAIN df_country :
          /\ df_country[d].PIC = LinkTo(OrgDetailsUrl, 0 - 1)
          /\ df_country[d].projectID = LinkTo(CordisProjectUrl, 300)
    /\ \E k \in DOMAIN df_country_projects :
          df_country_projects[k].projectID = LinkTo(CordisProjectUrl, 100)
    /\ \E k \in DOMAIN df_country_orgs : df_country_orgs[k].PIC = 0 - 1

\* C18: no step of do_cordis_summary changes the participation relation or
\* the project relation it was called with, whether it returns or raises.
C18_InputsUnchanged ==
    [][ pc # "load" => /\ df_orgs' = df_orgs
                       /\ df_projects' = df_projects ]_vars

\* C18 witness: do_cordis_summary has returned decorated tables of fewer
\* rows than the participation relation, which still has a row without
\* organisationID and the plain projectIDs
C18_Witness ==
    /\ pc = "done"
    /\ Len(df_country) < Len(df_orgs)
    /\ df_country[1].projectID = LinkTo(CordisProjectUrl, 100)
    /\ df_orgs[1].projectID = 100
    /\ \E i \in FilteredIdx : df_orgs[i].organisationID = NaN
    /\ \A j \in DOMAIN df_projects : df_projects[j].projectID \in {100, 200, 300}

\* positions of main before the decision on new data has been taken
BeforeDecision == {"main", "fetch", "decide"}

\* C19: in a run with --newonly a spreadsheet is written only if at least
\* one programme was downloaded in the run; a run with --newonly in which
\* none was downloaded, and so every run with --newonly and --local, ends
\* at the decision: no relation is loaded or processed, no file is written.
C19_NewOnlyOutput ==
    args.newonly =>
        /\ saved # <<>> => downloaded # {}
        /\ (downloaded = {} /\ pc \notin BeforeDecision) =>
              /\ pc = "exit_no_updates"
              /\ df_orgs = <<>> /\ df_projects = <<>> /\ df_country = <<>>
              /\ saved = <<>>
        /\ args.local => /\ downloaded = {}
                          /\ pc \in {"main", "decide", "exit_no_updates"}

\* C19 witness: a run with --newonly that found one programme out of date,
\* downloaded it and wrote the spreadsheet
C19_Witness ==
    /\ pc = "done"
    /\ args.newonly /\ ~args.force
    /\ downloaded = {"H2020"}
    /\ saved # <<>>

\* C20 (as claimed): in a run with --force, once the data check is over,
\* the data of all three programmes have been downloaded, whatever the
\* dates and the other switches.
C20_ForceDownloadsAll ==
    (args.force /\ pc \notin {"main", "fetch"}) =>
        downloaded = Range(FrameworkProgrammes)

(* ======================= the claims, C21 to C25 ======================== *)
\* the positions at which a run of HE_calls_updates has ended
CallsFinished == {"done", "aborted", "KeyError"}

\* the last step of a run of HE_calls_updates
CallsLastStep == cpc \notin CallsFinished /\ cpc' \in CallsFinished

\* at least one processed call has a ccm2Id that the compare file, as it is
\* in the working directory, does not hold
ChangesFromCompareFile ==
    /\ compare_file # False
    /\ notna(read_excel(compare_file).ccm2Id)
    /\ \E i \in DOMAIN df_calls :
          df_calls[i].ccm2Id \notin read_excel(compare_file).ccm2Id[1]

NoPreviousCallsFile ==
    \A i \in DOMAIN xlsx_files : ~startswith(xlsx_files[i].name, "HE_calls")

\* C24: a run without a file argument in a working directory without a
\* previous HE_calls spreadsheet has saved the new spreadsheet when it ends,
\* whatever the other options
C24_SavedWithoutCompareFile ==
    [][CallsLastStep /\ calls_args.file = NaN /\ NoPreviousCallsFile
          => calls_saved' = <<out_file_name>>]_vars

\* the positions of HE_CORDIS_updates after the call of do_cordis_summary
InSummary == {"filter", "orgs", "projects", "countries", "links", "done", "KeyError"}

\* the number of countries that the arguments up to the n-th stand for
RECURSIVE ExpandedLen(_, _)
ExpandedLen(items, n) ==
    IF n = 0 THEN 0
    ELSE ExpandedLen(items, n - 1)
           + (IF items[n] \in DOMAIN country_sets THEN Len(country_sets[items[n]]) ELSE 1)

\* C22: the country list handed to do_cordis_summary holds, in the order of
\* the arguments, the members of each preset, 'UK' for 'GB' and every other
\* argument unchanged, so 'GB' is never in it; with an argument that is no
\* preset, not 'GB' and has no country name the run ends before any summary:
\* no relation is filtered or summarised and no file is written.
C22_CountryList ==
    /\ pc \in InSummary =>
          /\ ~invalid_country(args.country)
          /\ Len(country) = ExpandedLen(args.country, Len(args.country))
          /\ \A n \in DOMAIN args.country :
                LET item == args.country[n]
                    at == ExpandedLen(args.country, n - 1)
                IN  IF item \in DOMAIN country_sets
                    THEN \A k \in DOMAIN country_sets[item] :
                            country[at + k] = country_sets[item][k]
                    ELSE IF item = "GB"
                    THEN country[at + 1] = "UK"
                    ELSE country[at + 1] = item
          /\ "GB" \notin Range(country)
    /\ (args # <<>> /\ invalid_country(args.country)) =>
          /\ pc \notin InSummary
          /\ df_country = <<>> /\ df_country_orgs = <<>>
          /\ df_country_projects = <<>> /\ df_countries_summary = <<>>
          /\ saved = <<>>

\* 'GB' was given with another code and the summary was made for 'UK'
C22_Witness ==
    /\ pc = "done"
    /\ args.country = <<"GB", "NZ">>
    /\ country = <<"UK", "NZ">>
    /\ df_countries_summary # <<>>

\* the first detail row of the country c
FirstOfCountry(c) ==
    CHOOSE d \in DOMAIN df_country :
        /\ df_country[d].country = c
        /\ \A e \in 1..(d - 1) : df_country[e].country # c

\* the descriptive attributes of an organisation summary row
DescriptiveAttributes ==
    {"Organisation", "shortName", "country", "countryName", "activityType", "SME"}

\* C23: the descriptive attributes of each organisation summary row are those
\* of the first detail row with its organisation id, and the country name of
\* each country summary row is that of the first detail row of its country,
\* whatever the later rows with the same key hold.
C23_FirstOccurrenceWins ==
    /\ pc \in OrgsAndPlainDetail =>
          \A k \in DOMAIN df_country_orgs :
              \A a \in DescriptiveAttributes :
                  df_country_orgs[k][a]
                      = df_country[FirstAppearance(df_country_orgs[k].PIC)][a]
    /\ pc = "links" =>
          \A k \in DOMAIN df_countries_summary :
              df_countries_summary[k].countryName
                  = df_country[FirstOfCountry(df_countries_summary[k].country)].countryName

\* an organisation summary row whose name and country differ from those of
\* a later detail row with the same organisation id
C23_Witness ==
    /\ pc = "links"
    /\ \E k \in DOMAIN df_country_orgs : \E d \in DOMAIN df_country :
          /\ df_country[d].PIC = df_country_orgs[k].PIC
          /\ d > FirstAppearance(df_country_orgs[k].PIC)
          /\ df_country[d].Organisation # df_country_orgs[k].Organisation
          /\ df_country[d].country # df_country_orgs[k].country

\* the fetch loop of the run has ended
AfterFetch == pc \notin {"main", "fetch"}

\* the publication date of fp is after the instant that the text m names
NewerThanMarker(fp, m) ==
    LET remote == checkCordisDate(fp)[1]
    IN  \/ remote.date > m[1]
        \/ remote.date = m[1] /\ remote.time > m[2]

\* C25: in a run without --local and without --force, when the fetch loop
\* has ended, the programmes downloaded are exactly those that had no date
\* marker or a marker older than the publication date when the dates were
\* read; the marker of each downloaded programme then reads back as its
\* publication date; the new-data flag is set exactly when a programme was
\* downloaded; and a second run right after the first downloads nothing and
\* leaves the flag unset.
C25_DownloadIffNewer ==
    (args # <<>> /\ ~args.local /\ ~args.force /\ AfterFetch) =>
        /\ \A fp \in Range(FrameworkProgrammes) :
              /\ fp \in downloaded <=>
                    \/ fp_data[fp].stored_date = NaN
                    \/ later(fp_data[fp].cordis_date[1], fp_data[fp].stored_date[1])
              /\ fp \in downloaded =>
                    /\ stored[fp] # NaN
                    /\ ~NewerThanMarker(fp, stored[fp][1])
                    /\ checkLocalDataDate(fp) = checkCordisDate(fp)
              /\ fp \notin downloaded =>
                    stored[fp] # NaN /\ ~NewerThanMarker(fp, stored[fp][1])
        /\ newdata <=> downloaded # {}
        /\ previous # <<>> => downloaded = {} /\ ~newdata

\* a second run has passed its fetch loop and downloaded nothing, after a
\* first run that downloaded FP7 and H2020 and left HORIZON alone; the
\* marker written for FP7 reads like the one HORIZON had
C25_Witness ==
    /\ previous # <<>>
    /\ ~args.local /\ ~args.force
    /\ AfterFetch
    /\ previous[1].downloaded = {"FP7", "H2020"}
    /\ previous[1].newdata
    /\ stored["FP7"] = stored["HORIZON"]
    /\ downloaded = {}

====
